---- MODULE Spec2Model ----
(***************************************************************************)
(* Model of go-aah/router: a Domain's per-method route trees and by-name   *)
(* route index (router.go), with the request-time operations Lookup,       *)
(* LookupByName, Allowed and ReverseURLm, and the registration operation   *)
(* AddRoute.                                                               *)
(*                                                                         *)
(* Strings that the code inspects byte by byte (paths, patterns, argument  *)
(* values, URLs) are sequences of one-character strings; names, methods    *)
(* and map keys, which the code only compares, are TLA+ strings.           *)
(*                                                                         *)
(* The radix tree (node.add, node.find, countParams) and suffixCommaValue  *)
(* are not part of router.go; they are modelled from the specification     *)
(* document (sections 3, 4.1 and 4.2).                                      *)
(***************************************************************************)
EXTENDS Naturals, Sequences, FiniteSets, TLC

VARIABLES trees, routes, CORSEnabled, last, Domains

vars == <<trees, routes, CORSEnabled, last, Domains>>

(***************************************************************************)
(* Bounds                                                                  *)
(***************************************************************************)
\* number of routes a behaviour registers
MaxRoutes == 2

(***************************************************************************)
(* ahttp constants and byte constants of router.go                         *)
(***************************************************************************)
MethodGet == "GET"
MethodPost == "POST"
MethodOptions == "OPTIONS"

slashByte == "/"
paramByte == ":"
wildByte == "*"

\* nil of Go (a nil *Route, a nil *PathParams, a nil interface{} value)
Nil == "<nil>"

(***************************************************************************)
(* Byte-string helpers                                                     *)
(***************************************************************************)
IsPrefix(s, t) == Len(s) <= Len(t) /\ SubSeq(t, 1, Len(s)) = s

\* s[from:] of Go, with from counted from 1
Drop(s, n) == SubSeq(s, n + 1, Len(s))

\* index of the first sep in s at or after position from, or Len(s)+1
RECURSIVE IndexFrom(_, _, _)
IndexFrom(s, sep, from) ==
    IF from > Len(s) THEN Len(s) + 1
    ELSE IF s[from] = sep THEN from
    ELSE IndexFrom(s, sep, from + 1)

\* strings.Split(s, sep) for a one-byte separator
RECURSIVE Split(_, _)
Split(s, sep) ==
    LET i == IndexFrom(s, sep, 1)
    IN IF i > Len(s) THEN <<s>>
       ELSE <<SubSeq(s, 1, i - 1)>> \o Split(Drop(s, i), sep)

\* the segments of s joined with "/" in front of each
RECURSIVE JoinRooted(_)
JoinRooted(segs) ==
    IF segs = <<>> THEN <<>>
    ELSE <<slashByte>> \o Head(segs) \o JoinRooted(Tail(segs))

\* path.Clean of a rooted path: empty and "." elements are dropped, ".."
\* removes the element before it (and is dropped at the root)
RECURSIVE CleanSegs(_, _)
CleanSegs(segs, acc) ==
    IF segs = <<>> THEN acc
    ELSE LET e == Head(segs)
         IN IF e = <<>> \/ e = <<".">> THEN CleanSegs(Tail(segs), acc)
            ELSE IF e = <<".", ".">>
                 THEN CleanSegs(Tail(segs),
                                IF acc = <<>> THEN acc
                                ELSE SubSeq(acc, 1, Len(acc) - 1))
            ELSE CleanSegs(Tail(segs), Append(acc, e))

Clean(p) ==
    LET segs == CleanSegs(Split(p, slashByte), <<>>)
    IN IF segs = <<>> THEN <<slashByte>> ELSE JoinRooted(segs)

\* path.Join(a, b) for a rooted, non-empty a: empty elements are ignored,
\* the rest joined with "/" and cleaned
PathJoin(a, b) ==
    IF b = <<>> THEN Clean(a) ELSE Clean(a \o <<slashByte>> \o b)

(***************************************************************************)
(* The route tree of one method (node.add / node.find).  A tree is the     *)
(* set of its terminals, [path, value]; a node of the trie is a prefix of  *)
(* a registered pattern, and its children are the prefixes one byte (or    *)
(* one parameter) longer.  Compression of literal spans and the priority   *)
(* ordering of children do not change what is matched and are not          *)
(* represented.                                                            *)
(***************************************************************************)
EmptyTree == {}

Terminal(T, n) == \E e \in T : e.path = n

ValueAt(T, n) == (CHOOSE e \in T : e.path = n).value

NodeExists(T, n) == \E e \in T : IsPrefix(n, e.path)

\* the name of a parameter that starts at position k of pattern p (p[k] is
\* ':' or '*'): the bytes up to the next '/'
ParamNameAt(p, k) == SubSeq(p, k + 1, IndexFrom(p, slashByte, k + 1) - 1)

\* node n has a parameter edge; the edge has one fixed name
HasParamEdge(T, n) == NodeExists(T, n \o <<paramByte>>)

ParamEdgeName(T, n) ==
    LET e == CHOOSE x \in T : IsPrefix(n \o <<paramByte>>, x.path)
    IN ParamNameAt(e.path, Len(n) + 1)

\* node n has a catch-all edge: the edge consumes the rest of the path
\* including its leading '/', so it hangs at the node before that '/'
HasCatchAllEdge(T, n) == NodeExists(T, n \o <<slashByte, wildByte>>)

CatchAllPath(T, n) ==
    (CHOOSE x \in T : IsPrefix(n \o <<slashByte, wildByte>>, x.path)).path

CatchAllName(T, n) == ParamNameAt(CatchAllPath(T, n), Len(n) + 2)

\* errors of node.add
ErrNone == "ok"
errNodeExists == "node exists"
errParamEdge == "parameter based edge already exists"
errCatchAll == "catch-all is only allowed as the final segment"

\* what is wrong with pattern p at position k, given tree T
AddErrorAt(T, p, k) ==
    IF p[k] = paramByte
    THEN IF HasParamEdge(T, SubSeq(p, 1, k - 1))
            /\ ParamEdgeName(T, SubSeq(p, 1, k - 1)) # ParamNameAt(p, k)
         THEN errParamEdge ELSE ErrNone
    ELSE IF p[k] = wildByte
    THEN IF k < 2 \/ p[k - 1] # slashByte
            \/ IndexFrom(p, slashByte, k + 1) <= Len(p)
         THEN errCatchAll
         ELSE IF HasCatchAllEdge(T, SubSeq(p, 1, k - 2))
                 /\ CatchAllName(T, SubSeq(p, 1, k - 2)) # ParamNameAt(p, k)
         THEN errParamEdge ELSE ErrNone
    ELSE ErrNone

\* the insertion walks the pattern from the root: the first position that
\* is in error decides; a pattern that ends on a terminal is a duplicate
AddError(T, p) ==
    LET bad == {k \in 1..Len(p) : AddErrorAt(T, p, k) # ErrNone}
    IN IF bad # {}
       THEN AddErrorAt(T, p, CHOOSE k \in bad : \A j \in bad : k <= j)
       ELSE IF Terminal(T, p) THEN errNodeExists ELSE ErrNone

\* node.add(path, value): the tree after the call (unchanged on error)
TreeAdd(T, p, v) ==
    IF AddError(T, p) = ErrNone THEN T \cup {[path |-> p, value |-> v]} ELSE T

\* results of the walk
Hit(v, ps) == [found |-> TRUE, value |-> v, params |-> ps, rts |-> FALSE]
Miss(r) == [found |-> FALSE, value |-> Nil, params |-> <<>>, rts |-> r]

\* Walk from node n with the rest of the request path still to match.
\* Edges are tried static first, then parameter, then catch-all; a later
\* edge is tried when the earlier ones lead to no terminal.  Where the walk
\* fails, the trailing-slash signal is raised if (a) the rest is a single
\* '/' and the node is a terminal, or (b) the rest is empty and the node
\* has a terminal one '/' further (a static '/' child or a catch-all edge).
RECURSIVE Walk(_, _, _, _)
Walk(T, n, rest, ps) ==
    IF rest = <<>>
    THEN IF Terminal(T, n) THEN Hit(ValueAt(T, n), ps)
         ELSE Miss(Terminal(T, n \o <<slashByte>>) \/ HasCatchAllEdge(T, n))
    ELSE
      LET c == Head(rest)
          st == IF c \notin {paramByte, wildByte} /\ NodeExists(T, n \o <<c>>)
                THEN Walk(T, n \o <<c>>, Tail(rest), ps)
                ELSE Miss(FALSE)
          end == IndexFrom(rest, slashByte, 1)
          pname == ParamEdgeName(T, n)
          pa == IF HasParamEdge(T, n) /\ end > 1
                THEN Walk(T, n \o <<paramByte>> \o pname, Drop(rest, end - 1),
                          Append(ps, [Key |-> pname,
                                      Value |-> SubSeq(rest, 1, end - 1)]))
                ELSE Miss(FALSE)
          ca == IF c = slashByte /\ HasCatchAllEdge(T, n)
                THEN Hit(ValueAt(T, CatchAllPath(T, n)),
                         Append(ps, [Key |-> CatchAllName(T, n), Value |-> rest]))
                ELSE Miss(FALSE)
          here == rest = <<slashByte>> /\ Terminal(T, n)
      IN IF st.found THEN st
         ELSE IF pa.found THEN pa
         ELSE IF ca.found THEN ca
         ELSE Miss(st.rts \/ pa.rts \/ ca.rts \/ here)

\* node.find(path): (value, params, rts, err)
TreeFind(T, path) ==
    LET w == Walk(T, <<>>, path, <<>>)
    IN [value |-> w.value, params |-> w.params, rts |-> w.rts, err |-> Nil]

\* countParams(path): the number of ':' and '*' bytes of the pattern
countParams(p) == Cardinality({k \in 1..Len(p) : p[k] \in {paramByte, wildByte}})


(***************************************************************************)
(* Domain (router.go)                                                      *)
(***************************************************************************)
\* a nil *Route and a nil *PathParams
NilRoute == [nil |-> TRUE]
NilParams == [nil |-> TRUE]
\* &pathParams: a non-nil pointer to the list the tree returned
ParamsPtr(ps) == [nil |-> FALSE, list |-> ps]

\* d.routes[name] of Go: the zero value (nil) for a missing key
RouteOf(rs, name) == IF name \in DOMAIN rs THEN rs[name] ELSE NilRoute

\* the method Lookup works with after the method override
\* the override applied whatever the request method is
EffectiveMethod_AnyMethod(req) ==
    IF req.Override # "" THEN req.Override ELSE req.Method

EffectiveMethod(req) ==
    IF req.Override # "" /\ req.Method = MethodPost THEN req.Override
    ELSE req.Method

\* lookupRouteTree that falls back to the Access-Control-Request-Method tree
\* whether or not CORS is enabled
lookupRouteTree_AnyDomain(ts, cors, method, acrm) ==
    IF method \in DOMAIN ts THEN method
    ELSE IF method = MethodOptions /\ acrm \in DOMAIN ts THEN acrm
    ELSE Nil

\* Domain.lookupRouteTree: the method whose tree is used, or Nil
lookupRouteTree(ts, cors, method, acrm) ==
    IF method \in DOMAIN ts THEN method
    ELSE IF method = MethodOptions /\ cors /\ acrm \in DOMAIN ts THEN acrm
    ELSE Nil

\* Lookup that hands out the parameters it collected also with the
\* trailing-slash signal
Lookup_KeepsParams(ts, rs, cors, req) ==
    LET m == lookupRouteTree(ts, cors, EffectiveMethod(req), req.ACRM)
        f == TreeFind(ts[m], req.Path)
    IN IF m = Nil
       THEN [route |-> NilRoute, params |-> NilParams, rts |-> FALSE]
       ELSE IF f.value # Nil /\ f.err = Nil
       THEN [route |-> RouteOf(rs, f.value), params |-> ParamsPtr(f.params),
             rts |-> f.rts]
       ELSE [route |-> NilRoute, params |-> ParamsPtr(f.params), rts |-> f.rts]

\* Lookup that never reports the trailing-slash redirect
Lookup_NoRedirect(ts, rs, cors, req) ==
    LET m == lookupRouteTree(ts, cors, EffectiveMethod(req), req.ACRM)
        f == TreeFind(ts[m], req.Path)
    IN IF m = Nil
       THEN [route |-> NilRoute, params |-> NilParams, rts |-> FALSE]
       ELSE IF f.value # Nil /\ f.err = Nil
       THEN [route |-> RouteOf(rs, f.value), params |-> ParamsPtr(f.params),
             rts |-> f.rts]
       ELSE [route |-> NilRoute, params |-> NilParams, rts |-> FALSE]

\* Domain.Lookup: (route, params, rts)
Lookup(ts, rs, cors, req) ==
    LET m == lookupRouteTree(ts, cors, EffectiveMethod(req), req.ACRM)
        f == TreeFind(ts[m], req.Path)
    IN IF m = Nil
       THEN [route |-> NilRoute, params |-> NilParams, rts |-> FALSE]
       ELSE IF f.value # Nil /\ f.err = Nil
       THEN [route |-> RouteOf(rs, f.value), params |-> ParamsPtr(f.params),
             rts |-> f.rts]
       ELSE IF f.rts
       THEN [route |-> NilRoute, params |-> NilParams, rts |-> f.rts]
       ELSE [route |-> NilRoute, params |-> NilParams, rts |-> FALSE]

\* Domain.LookupByName
LookupByName(rs, name) == IF name \in DOMAIN rs THEN rs[name] ELSE NilRoute

\* AddRoute that does not look at the error of the insertion
AddRouteError_Unchecked(ts, route) ==
    IF route.Method = "" THEN "router: method value is empty" ELSE ErrNone

\* Domain.AddRoute: the error it returns
AddRouteError(ts, route) ==
    IF route.Method = "" THEN "router: method value is empty"
    ELSE AddError(IF route.Method \in DOMAIN ts THEN ts[route.Method]
                  ELSE EmptyTree, route.Path)

\* AddRoute that keeps the pattern in the tree although the insertion
\* reported an error
AddRouteTrees_Forced(ts, route) ==
    IF route.Method = "" THEN ts
    ELSE LET tree == IF route.Method \in DOMAIN ts THEN ts[route.Method]
                     ELSE EmptyTree
         IN [m \in DOMAIN ts \cup {route.Method} |->
                IF m = route.Method
                THEN IF Terminal(tree, route.Path) THEN tree
                     ELSE tree \cup {[path |-> route.Path, value |-> route.Name]}
                ELSE ts[m]]

\* Domain.AddRoute: d.trees after the call.  The tree of the method is
\* created before the insertion is tried, and stays when it fails.
AddRouteTrees(ts, route) ==
    IF route.Method = "" THEN ts
    ELSE LET tree == IF route.Method \in DOMAIN ts THEN ts[route.Method]
                     ELSE EmptyTree
         IN [m \in DOMAIN ts \cup {route.Method} |->
                IF m = route.Method THEN TreeAdd(tree, route.Path, route.Name)
                ELSE ts[m]]

\* AddRoute that records the route in the index before the insertion is
\* known to have succeeded
AddRouteRoutes_Always(ts, rs, route) ==
    IF route.Method = "" THEN rs
    ELSE [n \in DOMAIN rs \cup {route.Name} |->
             IF n = route.Name THEN route ELSE rs[n]]

\* Domain.AddRoute: d.routes after the call
AddRouteRoutes(ts, rs, route) ==
    IF AddRouteError(ts, route) # ErrNone THEN rs
    ELSE [n \in DOMAIN rs \cup {route.Name} |->
             IF n = route.Name THEN route ELSE rs[n]]

\* Domain.Allowed: the methods the loop appends (in map iteration order)
AllowedMethods_SkipsRequest(ts, requestMethod, path) ==
    IF path = <<wildByte>>
    THEN {m \in DOMAIN ts : ~(m = requestMethod \/ m = MethodOptions)}
    ELSE {m \in DOMAIN ts :
            /\ ~(m = requestMethod \/ m = MethodOptions)
            /\ TreeFind(ts[m], path).value # Nil}

AllowedMethods_KeepsRequest(ts, requestMethod, path) ==
    IF path = <<wildByte>>
    THEN {m \in DOMAIN ts : m # MethodOptions}
    ELSE {m \in DOMAIN ts :
            /\ m # MethodOptions
            /\ TreeFind(ts[m], path).value # Nil}

AllowedMethods(ts, requestMethod, path) ==
    IF path = <<wildByte>>
    THEN {m \in DOMAIN ts : m # MethodOptions}
    ELSE {m \in DOMAIN ts :
            /\ ~(m = requestMethod \/ m = MethodOptions)
            /\ TreeFind(ts[m], path).value # Nil}

\* the orders in which a range over a Go map may visit a set of keys
Orders(S) ==
    {o \in [1..Cardinality(S) -> S] : \A i, j \in DOMAIN o : i # j => o[i] # o[j]}


\* suffixCommaValue(s, v): v appended to the comma separated list s.  The
\* list is kept as its sequence of items and separators.
suffixCommaValue(s, v) == IF s = <<>> THEN <<v>> ELSE s \o <<", ", v>>

RECURSIVE JoinComma(_)
JoinComma(o) ==
    IF o = <<>> THEN <<>>
    ELSE suffixCommaValue(JoinComma(SubSeq(o, 1, Len(o) - 1)), o[Len(o)])

\* Domain.Allowed: the values it may return (one per iteration order)
Allowed(ts, requestMethod, path) ==
    {JoinComma(o) : o \in Orders(AllowedMethods(ts, requestMethod, path))}

(***************************************************************************)
(* Reverse URL.  An argument map is a set of [Key, Value] with distinct    *)
(* keys; values are strings (fmt.Sprintf("%v", s) of a string is s).      *)
(***************************************************************************)
HasArg(args, k) == \E a \in args : a.Key = k
ArgValue(args, k) == (CHOOSE a \in args : a.Key = k).Value

\* the order of url.Values.Encode: by key, byte-wise
ByteOrder == <<" ", "&", ".", "/", "=", "?", "a", "b", "f", "i", "q", "u">>
Rank(b) == CHOOSE i \in DOMAIN ByteOrder : ByteOrder[i] = b

RECURSIVE KeyLess(_, _)
KeyLess(x, y) ==
    IF x = <<>> THEN y # <<>>
    ELSE IF y = <<>> THEN FALSE
    ELSE IF Head(x) = Head(y) THEN KeyLess(Tail(x), Tail(y))
    ELSE Rank(Head(x)) < Rank(Head(y))

\* url.QueryEscape: '/', '?', '=', '&' are percent-encoded, a space becomes
\* '+', letters and '.' are kept
RECURSIVE QueryEscape(_)
QueryEscape(v) ==
    IF v = <<>> THEN <<>>
    ELSE (IF Head(v) = "/" THEN <<"%", "2", "F">>
          ELSE IF Head(v) = " " THEN <<"+">>
          ELSE IF Head(v) = "?" THEN <<"%", "3", "F">>
          ELSE IF Head(v) = "=" THEN <<"%", "3", "D">>
          ELSE IF Head(v) = "&" THEN <<"%", "2", "6">>
          ELSE <<Head(v)>>) \o QueryEscape(Tail(v))

\* url.Values.Encode of the remaining arguments
RECURSIVE Encode(_)
Encode(args) ==
    IF args = {} THEN <<>>
    ELSE LET a == CHOOSE x \in args : \A y \in args \ {x} : KeyLess(x.Key, y.Key)
             rest == Encode(args \ {a})
         IN QueryEscape(a.Key) \o <<"=">> \o QueryEscape(a.Value)
            \o (IF rest = <<>> THEN <<>> ELSE <<"&">> \o rest)

\* URL.EscapedPath: a space is percent-encoded, letters, '.' and '/' are
\* kept
RECURSIVE EscapePath(_)
EscapePath(v) ==
    IF v = <<>> THEN <<>>
    ELSE (IF Head(v) = " " THEN <<"%", "2", "0">> ELSE <<Head(v)>>)
         \o EscapePath(Tail(v))

\* url.Parse(s) followed by String(): the path up to the first '?',
\* escaped, and the raw query after it
URLString(s) ==
    LET q == IndexFrom(s, "?", 1)
    IN IF q > Len(s) THEN EscapePath(s)
       ELSE EscapePath(SubSeq(s, 1, q - 1)) \o <<"?">> \o Drop(s, q)

\* the loop with the substitution forgotten: a parameter segment is written
\* as it stands in the pattern
RECURSIVE ComposeURL_KeepsSegment(_, _, _)
ComposeURL_KeepsSegment(segs, url, args) ==
    IF segs = <<>> THEN [ok |-> TRUE, url |-> url, args |-> args]
    ELSE LET segment == Head(segs)
         IN IF segment = <<>> THEN ComposeURL_KeepsSegment(Tail(segs), url, args)
            ELSE IF segment[1] = paramByte \/ segment[1] = wildByte
            THEN IF HasArg(args, Tail(segment))
                 THEN ComposeURL_KeepsSegment(Tail(segs),
                                 PathJoin(url, segment),
                                 {a \in args : a.Key # Tail(segment)})
                 ELSE [ok |-> FALSE, url |-> <<>>, args |-> args]
            ELSE ComposeURL_KeepsSegment(Tail(segs), PathJoin(url, segment), args)

\* the loop of ReverseURLm over the segments of the pattern:
\* [ok, url, args] with the arguments that are left
RECURSIVE ComposeURL(_, _, _)
ComposeURL(segs, url, args) ==
    IF segs = <<>> THEN [ok |-> TRUE, url |-> url, args |-> args]
    ELSE LET segment == Head(segs)
         IN IF segment = <<>> THEN ComposeURL(Tail(segs), url, args)
            ELSE IF segment[1] = paramByte \/ segment[1] = wildByte
            THEN IF HasArg(args, Tail(segment))
                 THEN ComposeURL(Tail(segs),
                                 PathJoin(url, ArgValue(args, Tail(segment))),
                                 {a \in args : a.Key # Tail(segment)})
                 ELSE [ok |-> FALSE, url |-> <<>>, args |-> args]
            ELSE ComposeURL(Tail(segs), PathJoin(url, segment), args)

\* ReverseURLm that builds the query from all the arguments it was given
ReverseURLm_KeepsArgs(rs, routeName, args) ==
    IF routeName \notin DOMAIN rs THEN <<>>
    ELSE LET route == rs[routeName]
             argsLen == Cardinality(args)
             pathParamCnt == countParams(route.Path)
             c == ComposeURL(Tail(Split(route.Path, slashByte)),
                             <<slashByte>>, args)
         IN IF pathParamCnt = 0 /\ argsLen = 0 THEN route.Path
            ELSE IF argsLen < pathParamCnt THEN <<>>
            ELSE IF ~c.ok THEN <<>>
            ELSE IF args # {}
            THEN URLString(c.url \o <<"?">> \o Encode(args))
            ELSE URLString(c.url)

\* Domain.ReverseURLm: the URL, or the empty string
ReverseURLm(rs, routeName, args) ==
    IF routeName \notin DOMAIN rs THEN <<>>
    ELSE LET route == rs[routeName]
             argsLen == Cardinality(args)
             pathParamCnt == countParams(route.Path)
             c == ComposeURL(Tail(Split(route.Path, slashByte)),
                             <<slashByte>>, args)
         IN IF pathParamCnt = 0 /\ argsLen = 0 THEN route.Path
            ELSE IF argsLen < pathParamCnt THEN <<>>
            ELSE IF ~c.ok THEN <<>>
            ELSE IF c.args # {}
            THEN URLString(c.url \o <<"?">> \o Encode(c.args))
            ELSE URLString(c.url)


\* the loop of ReverseURL over the segments of the pattern: the idx-th
\* parameter segment takes values[idx]
RECURSIVE ComposePositional(_, _, _, _)
ComposePositional(segs, url, values, idx) ==
    IF segs = <<>> THEN url
    ELSE LET segment == Head(segs)
         IN IF segment = <<>>
            THEN ComposePositional(Tail(segs), url, values, idx)
            ELSE IF segment[1] = paramByte \/ segment[1] = wildByte
            THEN ComposePositional(Tail(segs), PathJoin(url, values[idx]),
                                   values, idx + 1)
            ELSE ComposePositional(Tail(segs), PathJoin(url, segment),
                                   values, idx)

\* ReverseURL without the check for too many arguments
ReverseURL_NoTooMany(rs, routeName, args) ==
    IF routeName \notin DOMAIN rs THEN <<>>
    ELSE LET route == rs[routeName]
             argsLen == Len(args)
             pathParamCnt == countParams(route.Path)
         IN IF pathParamCnt = 0 /\ argsLen = 0 THEN route.Path
            ELSE IF argsLen < pathParamCnt THEN <<>>
            ELSE URLString(ComposePositional(Split(route.Path, slashByte),
                                             <<slashByte>>, args, 1))

\* Domain.ReverseURL: the URL, or the empty string
ReverseURL(rs, routeName, args) ==
    IF routeName \notin DOMAIN rs THEN <<>>
    ELSE LET route == rs[routeName]
             argsLen == Len(args)
             pathParamCnt == countParams(route.Path)
         IN IF pathParamCnt = 0 /\ argsLen = 0 THEN route.Path
            ELSE IF argsLen > pathParamCnt THEN <<>>
            ELSE IF argsLen < pathParamCnt THEN <<>>
            ELSE URLString(ComposePositional(Split(route.Path, slashByte),
                                             <<slashByte>>, args, 1))

(***************************************************************************)
(* Configuration.  A value of the configuration that may be missing is a   *)
(* sequence of length 0 (key not found) or 1 (the value); a section is the *)
(* sequence of its entries in the order of cfg.Keys().  An error is the    *)
(* sequence of the parts of its message, the empty sequence is no error.   *)
(***************************************************************************)
None == <<>>
Some(v) == <<v>>
Found(o) == o # <<>>
Value(o) == o[1]
StringDefault(o, d) == IF Found(o) THEN Value(o) ELSE d

NoError == <<>>
Errorf(parts) == parts

\* strings.Contains(s, b) for a one-byte b
Contains(s, b) == \E i \in DOMAIN s : s[i] = b

\* the entry of a section with the given key: cfg.String("<name>.dir")
DirOfEntry(entries, name) ==
    IF \E i \in DOMAIN entries : entries[i].name = name
    THEN entries[CHOOSE i \in DOMAIN entries : entries[i].name = name].dir
    ELSE None

\* Route.IsDir, Route.IsFile
IsDir(r) == r.Dir # <<>> /\ r.File = <<>>
IsFile(r) == r.File # <<>>

filepathParam == <<"*", "f", "i", "l", "e", "p", "a", "t", "h">>

\* parseStaticSection that accepts an entry with both `dir` and `file`
StaticRoute_AllowsBoth(entries, e) ==
    LET routeName == e.name
        routePath == Value(e.path)
        dirFound == Found(e.dir)
        fileFound == Found(e.file)
        routeDir == StringDefault(e.dir, <<>>)
        routeFile == StringDefault(e.file, <<>>)
        cleaned == Clean(routePath)
        routePath2 == IF dirFound THEN PathJoin(cleaned, filepathParam)
                      ELSE cleaned
        relative == fileFound /\ ~Found(e.base_dir) /\ routeFile[1] # slashByte
        publicDir == DirOfEntry(entries, "public_assets")
        dir == IF fileFound
               THEN IF Found(e.base_dir) THEN Value(e.base_dir)
                    ELSE IF relative /\ Found(publicDir) THEN Value(publicDir)
                    ELSE routeDir
               ELSE routeDir
        route == [Name |-> routeName, Method |-> MethodGet, IsStatic |-> TRUE,
                  Path |-> routePath2, Dir |-> dir, File |-> routeFile,
                  ListDir |-> e.list]
    IN IF ~Found(e.path)
       THEN [err |-> Errorf(<<"'static.", routeName, ".path' key is missing">>)]
       ELSE IF routePath[1] # slashByte
       THEN [err |-> Errorf(<<"'static.", routeName, ".path' [">> \o routePath
                            \o <<"], path must begin with '/'">>)]
       ELSE IF Contains(routePath, paramByte) \/ Contains(routePath, wildByte)
       THEN [err |-> Errorf(<<"'static.", routeName,
                              ".path' parameters can not be used with static">>)]
       ELSE IF ~dirFound /\ ~fileFound
       THEN [err |-> Errorf(<<"either 'static.", routeName, ".dir' or 'static.",
                              routeName, ".file' key have to be present">>)]
       ELSE IF relative /\ ~Found(publicDir)
       THEN [err |-> Errorf(<<"'static.", routeName,
                              ".base_dir' value is missing">>)]
       ELSE [err |-> NoError, route |-> route]

\* parseStaticSection: one entry; [route, err]
StaticRoute(entries, e) ==
    LET routeName == e.name
        routePath == Value(e.path)
        dirFound == Found(e.dir)
        fileFound == Found(e.file)
        routeDir == StringDefault(e.dir, <<>>)
        routeFile == StringDefault(e.file, <<>>)
        cleaned == Clean(routePath)
        routePath2 == IF dirFound THEN PathJoin(cleaned, filepathParam)
                      ELSE cleaned
        relative == fileFound /\ ~Found(e.base_dir) /\ routeFile[1] # slashByte
        publicDir == DirOfEntry(entries, "public_assets")
        dir == IF fileFound
               THEN IF Found(e.base_dir) THEN Value(e.base_dir)
                    ELSE IF relative /\ Found(publicDir) THEN Value(publicDir)
                    ELSE routeDir
               ELSE routeDir
        route == [Name |-> routeName, Method |-> MethodGet, IsStatic |-> TRUE,
                  Path |-> routePath2, Dir |-> dir, File |-> routeFile,
                  ListDir |-> e.list]
    IN IF ~Found(e.path)
       THEN [err |-> Errorf(<<"'static.", routeName, ".path' key is missing">>)]
       ELSE IF routePath[1] # slashByte
       THEN [err |-> Errorf(<<"'static.", routeName, ".path' [">> \o routePath
                            \o <<"], path must begin with '/'">>)]
       ELSE IF Contains(routePath, paramByte) \/ Contains(routePath, wildByte)
       THEN [err |-> Errorf(<<"'static.", routeName,
                              ".path' parameters can not be used with static">>)]
       ELSE IF dirFound /\ fileFound
       THEN [err |-> Errorf(<<"'static.", routeName, ".dir' & 'static.",
                              routeName,
                              ".file' key(s) cannot be used together">>)]
       ELSE IF ~dirFound /\ ~fileFound
       THEN [err |-> Errorf(<<"either 'static.", routeName, ".dir' or 'static.",
                              routeName, ".file' key have to be present">>)]
       ELSE IF relative /\ ~Found(publicDir)
       THEN [err |-> Errorf(<<"'static.", routeName,
                              ".base_dir' value is missing">>)]
       ELSE [err |-> NoError, route |-> route]

\* the loop of parseStaticSection from entry i on; [routes, err]
RECURSIVE StaticLoop(_, _, _)
StaticLoop(entries, i, acc) ==
    IF i > Len(entries) THEN [routes |-> acc, err |-> NoError]
    ELSE LET r == StaticRoute(entries, entries[i])
         IN IF r.err # NoError THEN [routes |-> acc, err |-> r.err]
            ELSE StaticLoop(entries, i + 1, Append(acc, r.route))

\* parseStaticSection(cfg): (routes, err)
parseStaticSection(entries) == StaticLoop(entries, 1, <<>>)

\* HTTPMethodActionMap
HTTPMethodActionMap ==
    [m \in {"GET", "POST", "PUT", "PATCH", "DELETE", "OPTIONS", "HEAD", "TRACE"} |->
        CASE m = "GET" -> "Index"
          [] m = "POST" -> "Create"
          [] m = "PUT" -> "Update"
          [] m = "PATCH" -> "Update"
          [] m = "DELETE" -> "Delete"
          [] m = "OPTIONS" -> "Options"
          [] m = "HEAD" -> "Head"
          [] m = "TRACE" -> "Trace"]

(* The value of a `method` key is the sequence of its words and separators *)
(* (a method name in either case, "," or " "); between two commas the      *)
(* values of the model have one word.                                      *)
ToUpperWord(w) ==
    CASE w = "get" -> "GET"
      [] w = "post" -> "POST"
      [] w = "options" -> "OPTIONS"
      [] OTHER -> w

\* strings.ToUpper
ToUpper(s) == [i \in DOMAIN s |-> ToUpperWord(s[i])]

\* strings.TrimSpace
RECURSIVE TrimSpace(_)
TrimSpace(s) ==
    IF s = <<>> THEN s
    ELSE IF Head(s) = " " THEN TrimSpace(Tail(s))
    ELSE IF s[Len(s)] = " " THEN TrimSpace(SubSeq(s, 1, Len(s) - 1))
    ELSE s

\* the Go string of a trimmed element of the method list
MethodName(part) == IF part = <<>> THEN "" ELSE part[1]

\* findActionByHTTPMethod: the default action of a method, "" when the
\* value is not a method of the table
findActionByHTTPMethod(routeMethod) ==
    IF Len(routeMethod) = 1 /\ routeMethod[1] \in DOMAIN HTTPMethodActionMap
    THEN HTTPMethodActionMap[routeMethod[1]]
    ELSE ""

\* checkValidationRule(seg): (param, rules, exists, valid)
checkValidationRule(seg) ==
    LET b == IndexFrom(seg, "[", 1)
    IN IF b > Len(seg)
       THEN [param |-> seg, rules |-> <<>>, exists |-> FALSE, valid |-> TRUE]
       ELSE [param |-> SubSeq(seg, 1, b - 1),
             rules |-> SubSeq(seg, b + 1, Len(seg) - 1),
             exists |-> TRUE,
             valid |-> seg[Len(seg)] = "]"]

\* path.Join(a, b) where a may be empty
PathJoinAny(a, b) ==
    IF a = <<>> THEN (IF b = <<>> THEN <<>> ELSE Clean(b)) ELSE PathJoin(a, b)

\* the loop of parseRoutesSection that strips the validation rules from the
\* segments of the path: [ok, path]
RECURSIVE ActualRoutePath(_, _)
ActualRoutePath(segs, actualRoutePath) ==
    IF segs = <<>> THEN [ok |-> TRUE, path |-> actualRoutePath]
    ELSE LET seg == Head(segs)
             c == checkValidationRule(seg)
         IN IF seg = <<>> THEN ActualRoutePath(Tail(segs), actualRoutePath)
            ELSE IF seg[1] = paramByte \/ seg[1] = wildByte
            THEN IF c.exists /\ ~c.valid THEN [ok |-> FALSE, path |-> <<>>]
                 ELSE ActualRoutePath(Tail(segs),
                                      PathJoin(actualRoutePath, c.param))
            ELSE ActualRoutePath(Tail(segs), PathJoin(actualRoutePath, seg))

\* the same loop for pathParamRules: the rules of the parameters of the
\* segments, keyed by parameter name (a later segment replaces the entry
\* of an earlier one with the same name)
RECURSIVE PathParamRules(_, _)
PathParamRules(segs, pathParamRules) ==
    IF segs = <<>> THEN pathParamRules
    ELSE LET seg == Head(segs)
             c == checkValidationRule(seg)
         IN IF seg # <<>> /\ seg[1] \in {paramByte, wildByte}
               /\ c.exists /\ c.valid
            THEN PathParamRules(Tail(segs),
                    [k \in DOMAIN pathParamRules \cup {Tail(c.param)} |->
                        IF k = Tail(c.param) THEN c.rules
                        ELSE pathParamRules[k]])
            ELSE PathParamRules(Tail(segs), pathParamRules)

\* the routes emitted for one entry: one per element of the method list
EmitRoutes(e, methods, actualRoutePath, controller, action, auth, routeInfo, pathParamRules) ==
    [i \in DOMAIN methods |->
        [Name |-> e.name, Path |-> actualRoutePath,
         Method |-> MethodName(TrimSpace(methods[i])),
         Controller |-> controller, Action |-> action,
         ParentName |-> routeInfo.ParentName, Auth |-> auth,
         IsStatic |-> FALSE, validationRules |-> pathParamRules]]

\* parseRoutesSection from entry i on; [routes, err]
RECURSIVE RoutesLoop(_, _, _, _)
RoutesLoop(entries, i, routeInfo, acc) ==
    IF i > Len(entries) THEN [routes |-> acc, err |-> NoError]
    ELSE
    LET e == entries[i]
        routeName == e.name
        found == Found(e.path)
        rawPath == StringDefault(e.path, <<>>)
        routePath == PathJoinAny(routeInfo.PrefixPath, rawPath)
        actual == ActualRoutePath(Tail(Split(routePath, slashByte)),
                                  <<slashByte>>)
        notToSkip == ~(Found(e.routes)
                       /\ (~Found(e.action) \/ ~Found(e.controller)))
        routeMethod == ToUpper(StringDefault(e.method, <<MethodGet>>))
        routeController == StringDefault(e.controller, routeInfo.Controller)
        routeAction == StringDefault(e.action,
                                     findActionByHTTPMethod(routeMethod))
        routeAuth == StringDefault(e.auth, routeInfo.Auth)
        emitted == IF notToSkip
                   THEN EmitRoutes(e, Split(routeMethod, ","), actual.path,
                                   routeController, routeAction, routeAuth,
                                   routeInfo,
                                   PathParamRules(
                                       Tail(Split(routePath, slashByte)), <<>>))
                   ELSE <<>>
        children == IF Found(e.routes)
                    THEN RoutesLoop(Value(e.routes), 1,
                                    [ParentName |-> routeName,
                                     PrefixPath |-> routePath,
                                     Controller |-> routeController,
                                     Auth |-> routeAuth], <<>>)
                    ELSE [routes |-> <<>>, err |-> NoError]
    IN IF ~found /\ routeInfo.PrefixPath = <<>>
       THEN [routes |-> acc,
             err |-> Errorf(<<"'", routeName, ".path' key is missing">>)]
       ELSE IF rawPath # <<>> /\ rawPath[1] # slashByte
       THEN [routes |-> acc,
             err |-> Errorf(<<"'", routeName, ".path' [">> \o rawPath
                            \o <<"], path must begin with '/'">>)]
       ELSE IF ~actual.ok
       THEN [routes |-> acc,
             err |-> Errorf(<<"'", routeName,
                              ".path' has invalid validation rule '">>
                            \o routePath \o <<"'">>)]
       ELSE IF routeController = "" /\ notToSkip
       THEN [routes |-> acc,
             err |-> Errorf(<<"'", routeName, ".controller' key is missing">>)]
       ELSE IF routeAction = "" /\ notToSkip
       THEN [routes |-> acc,
             err |-> Errorf(<<"'", routeName,
                  ".action' key is missing, it seems to be multiple HTTP methods">>)]
       ELSE IF children.err # NoError
       THEN [routes |-> acc \o emitted, err |-> children.err]
       ELSE RoutesLoop(entries, i + 1, routeInfo,
                       acc \o emitted \o children.routes)

\* parseRoutesSection that does not append the routes of child sections
parseRoutesSection_DropsChildren(entries, routeInfo) ==
    [routes |-> SelectSeq(RoutesLoop(entries, 1, routeInfo, <<>>).routes,
                          LAMBDA r : r.ParentName = routeInfo.ParentName),
     err |-> RoutesLoop(entries, 1, routeInfo, <<>>).err]

\* parseRoutesSection(cfg, routeInfo): (routes, err)
parseRoutesSection(entries, routeInfo) == RoutesLoop(entries, 1, routeInfo, <<>>)

(***************************************************************************)
(* Router.  A host is the sequence of its bytes; r.Domains is a function   *)
(* from keys to domains, the empty function before the first load.         *)
(***************************************************************************)
wildcardSubdomainPrefix == <<"*", ".">>

ToLowerByte(b) ==
    CASE b = "A" -> "a"
      [] b = "B" -> "b"
      [] b = "C" -> "c"
      [] b = "E" -> "e"
      [] OTHER -> b

\* strings.ToLower
ToLower(s) == [i \in DOMAIN s |-> ToLowerByte(s[i])]

\* a domain without trees and routes: make(map[string]*node),
\* make(map[string]*Route)
NoTrees == [m \in {} |-> EmptyTree]
NoRoutes == [n \in {} |-> NilRoute]

NilDomain == [nil |-> TRUE]
NoDomains == [k \in {} |-> NilDomain]

ErrNoDomainRoutesConfigFound == <<"router: no domain routes config found">>

\* Domain.key
key(d) ==
    IF d.Port = <<>> THEN ToLower(d.Host)
    ELSE ToLower(d.Host \o <<":">> \o d.Port)

\* FindDomain that also tries the wildcard key for a host that starts
\* with '.'
FindDomain_AnyIndex(ds, host) ==
    LET h == ToLower(host)
        idx == IndexFrom(h, ".", 1)
        wild == wildcardSubdomainPrefix \o Drop(h, idx)
    IN IF h \in DOMAIN ds THEN ds[h]
       ELSE IF idx <= Len(h) /\ wild \in DOMAIN ds THEN ds[wild]
       ELSE NilDomain

\* Router.FindDomain for the Host value of a request.  idx is the position
\* of the first '.' counted from 1, Len(h)+1 when there is none.
FindDomain(ds, host) ==
    LET h == ToLower(host)
        idx == IndexFrom(h, ".", 1)
        wild == wildcardSubdomainPrefix \o Drop(h, idx)
    IN IF h \in DOMAIN ds THEN ds[h]
       ELSE IF idx <= Len(h) /\ idx > 1 /\ wild \in DOMAIN ds THEN ds[wild]
       ELSE NilDomain

\* Router.RootDomain: the domains a range over r.Domains may meet first
\* among those that are no subdomain, NilDomain when there is none
RootDomain(ds) ==
    LET roots == {ds[k] : k \in {x \in DOMAIN ds : ~ds[x].IsSubDomain}}
    IN IF roots = {} THEN {NilDomain} ELSE roots

\* the loop over the routes of a section: domain.AddRoute for each until
\* one fails; [domain, err]
RECURSIVE AddRoutes(_, _, _)
AddRoutes(d, rts, i) ==
    IF i > Len(rts) THEN [domain |-> d, err |-> NoError]
    ELSE LET Added(err, d2) ==
                 IF err # ErrNone THEN [domain |-> d2, err |-> <<err>>]
                 ELSE AddRoutes(d2, rts, i + 1)
         IN Added(AddRouteError(d.trees, rts[i]),
                  [d EXCEPT !.trees = AddRouteTrees(d.trees, rts[i]),
                            !.routes = AddRouteRoutes(d.trees, d.routes, rts[i])])

\* Router.processStaticRoutes
processStaticRoutes(d, domainCfg) ==
    IF ~Found(domainCfg.static) THEN [domain |-> d, err |-> NoError]
    ELSE LET Parsed(p) ==
                 IF p.err # NoError THEN [domain |-> d, err |-> p.err]
                 ELSE AddRoutes(d, p.routes, 1)
         IN Parsed(parseStaticSection(Value(domainCfg.static)))

\* Router.processRoutes
processRoutes(d, domainCfg) ==
    IF ~Found(domainCfg.routes) THEN [domain |-> d, err |-> NoError]
    ELSE LET Parsed(p) ==
                 IF p.err # NoError THEN [domain |-> d, err |-> p.err]
                 ELSE AddRoutes(d, p.routes, 1)
         IN Parsed(parseRoutesSection(Value(domainCfg.routes),
                     [ParentName |-> "", PrefixPath |-> <<>>,
                      Controller |-> "", Auth |-> domainCfg.default_auth]))

\* the port of a domain: its own, else server.port of aah.conf, else 8080;
\* 80 and 443 become the empty string
DomainPort(cfg, domainCfg) ==
    LET port == StringDefault(domainCfg.port,
                              StringDefault(cfg.serverPort, <<"8", "0", "8", "0">>))
    IN IF port = <<"8", "0">> \/ port = <<"4", "4", "3">> THEN <<>> ELSE port

\* the loop of processRoutesConfig over the domain keys from the i-th on,
\* ds being r.Domains so far; [Domains, err]
RECURSIVE DomainsLoop(_, _, _)
DomainsLoop(cfg, i, ds) ==
    IF i > Len(cfg.domains) THEN [Domains |-> ds, err |-> NoError]
    ELSE
    LET domainCfg == cfg.domains[i]
        domain == [Name |-> domainCfg.key,
                   Host |-> Value(domainCfg.host),
                   Port |-> DomainPort(cfg, domainCfg),
                   IsSubDomain |-> domainCfg.subdomain,
                   CORSEnabled |-> domainCfg.cors,
                   trees |-> NoTrees,
                   routes |-> NoRoutes]
        \* r.Domains[domain.key()] = domain
        Stored(d, k) ==
            DomainsLoop(cfg, i + 1,
                [x \in DOMAIN ds \cup {k} |-> IF x = k THEN d ELSE ds[x]])
        WithRoutes(rt) ==
            IF rt.err # NoError THEN [Domains |-> ds, err |-> rt.err]
            ELSE Stored(rt.domain, key(rt.domain))
        WithStatic(st) ==
            IF st.err # NoError THEN [Domains |-> ds, err |-> st.err]
            ELSE WithRoutes(processRoutes(st.domain, domainCfg))
    IN IF ~Found(domainCfg.host)
       THEN [Domains |-> ds,
             err |-> Errorf(<<"'", domainCfg.key, ".host' key is missing">>)]
       ELSE WithStatic(processStaticRoutes(domain, domainCfg))

\* Router.processRoutesConfig, the part of Load after the file is read:
\* [Domains, err] from r.Domains before the call and the configuration
processRoutesConfig(ds, cfg) ==
    IF Len(cfg.domains) = 0
    THEN [Domains |-> ds, err |-> ErrNoDomainRoutesConfigFound]
    ELSE DomainsLoop(cfg, 1, NoDomains)

(***************************************************************************)
(* Inputs                                                                  *)
(***************************************************************************)
P_ab == <<"/", "a", "/", "b">>
P_abs == <<"/", "a", "/", "b", "/">>
P_ai == <<"/", "a", "/", ":", "i">>
P_aib == <<"/", "a", "/", ":", "i", "/", "b">>
P_aub == <<"/", "a", "/", ":", "u", "/", "b">>
P_af == <<"/", "a", "/", "*", "f">>
P_fa == <<"/", "*", "f", "/", "a">>

Route(name, method, path, static) ==
    [Name |-> name, Method |-> method, Path |-> path, IsStatic |-> static]

\* the routes AddRoute is called with
RouteInputs ==
    { Route("n1", MethodGet, P_ab, TRUE),
      Route("n1", MethodGet, P_ai, FALSE),
      Route("n3", MethodGet, P_af, FALSE),
      Route("n3", MethodGet, P_aub, FALSE),
      Route("n2", MethodGet, P_aib, FALSE),
      Route("n1", MethodPost, P_ai, FALSE),
      Route("n3", MethodGet, P_ab, FALSE),
      Route("n2", MethodPost, P_abs, FALSE),
      Route("n3", MethodOptions, P_ab, FALSE),
      Route("n1", MethodOptions, P_fa, FALSE),
      Route("n2", "", P_ab, FALSE) }

Names == {"n1", "n2", "n3"}
Methods == {MethodGet, MethodPost, MethodOptions}

\* request paths
PathInputs ==
    { <<"/", "a">>, P_ab, P_abs, <<"/", "a", "/", "a">>,
      <<"/", "a", "/", "a", "/", "b">>, <<"/", "b">> }

\* (X-HTTP-Method-Override, Access-Control-Request-Method) header values
HeaderInputs ==
    { <<"", "">>, <<MethodGet, "">>, <<MethodPost, "">>, <<"", MethodGet>> }

Request(method, hdr, path) ==
    [Method |-> method, Override |-> hdr[1], ACRM |-> hdr[2], Path |-> path]

Requests ==
    {Request(m, h, p) : m \in Methods, h \in HeaderInputs, p \in PathInputs}

\* argument maps of ReverseURLm
ArgKeys == {<<"i">>, <<"f">>, <<"q">>}
ArgValues == {<<>>, <<"b">>, <<".", ".">>, <<" ">>}
MaxArgs == 2

ArgMaps ==
    UNION {{ {[Key |-> k, Value |-> v[k]] : k \in K} : v \in [K -> ArgValues]} :
             K \in {X \in SUBSET ArgKeys : Cardinality(X) <= MaxArgs}}

\* positional arguments of ReverseURL: none, one or two values
PosValues == {<<"b">>, <<>>, <<"b", "?", "q">>}
PosArgLists ==
    {<<>>} \cup {<<v>> : v \in PosValues}
           \cup {<<v, w>> : v \in PosValues, w \in PosValues}

AllowedPaths == {<<wildByte>>, P_ab, <<"/", "a", "/", "a">>}

(***************************************************************************)
(* State machine                                                           *)
(***************************************************************************)
NumRoutes == Cardinality(UNION {trees[m] : m \in DOMAIN trees})


\* the caller is between two calls
Idle == [op |-> "Idle"]

Init ==
    /\ trees = NoTrees
    /\ routes = NoRoutes
    /\ CORSEnabled \in BOOLEAN
    /\ last = Idle
    /\ Domains = NoDomains

DoAddRoute(route) ==
    /\ last = Idle
    /\ NumRoutes < MaxRoutes
    /\ trees' = AddRouteTrees(trees, route)
    /\ routes' = AddRouteRoutes(trees, routes, route)
    /\ last' = [op |-> "AddRoute", route |-> route,
                err |-> AddRouteError(trees, route)]
    /\ UNCHANGED <<CORSEnabled, Domains>>

DoLookup(req) ==
    /\ last = Idle
    /\ last' = [op |-> "Lookup", req |-> req,
                res |-> Lookup(trees, routes, CORSEnabled, req)]
    /\ UNCHANGED <<trees, routes, CORSEnabled, Domains>>

DoLookupByName(name) ==
    /\ last = Idle
    /\ last' = [op |-> "LookupByName", name |-> name,
                res |-> LookupByName(routes, name)]
    /\ UNCHANGED <<trees, routes, CORSEnabled, Domains>>

DoAllowed(requestMethod, path) ==
    /\ last = Idle
    /\ \E allowed \in Allowed(trees, requestMethod, path) :
          last' = [op |-> "Allowed", requestMethod |-> requestMethod,
                   path |-> path, res |-> allowed]
    /\ UNCHANGED <<trees, routes, CORSEnabled, Domains>>

DoReverseURLm(name, args) ==
    /\ last = Idle
    /\ last' = [op |-> "ReverseURLm", name |-> name, args |-> args,
                res |-> ReverseURLm(routes, name, args)]
    /\ UNCHANGED <<trees, routes, CORSEnabled, Domains>>

DoReverseURL(name, args) ==
    /\ last = Idle
    /\ last' = [op |-> "ReverseURL", name |-> name, args |-> args,
                res |-> ReverseURL(routes, name, args)]
    /\ UNCHANGED <<trees, routes, CORSEnabled, Domains>>

\* the caller takes the result of the call and goes on
Return ==
    /\ last # Idle
    /\ last' = Idle
    /\ UNCHANGED <<trees, routes, CORSEnabled, Domains>>

Next ==
    \/ \E route \in RouteInputs : DoAddRoute(route)
    \/ \E req \in Requests : DoLookup(req)
    \/ \E name \in Names : DoLookupByName(name)
    \/ \E m \in Methods, p \in AllowedPaths : DoAllowed(m, p)
    \/ \E name \in Names, args \in ArgMaps : DoReverseURLm(name, args)
    \/ \E name \in Names, args \in PosArgLists : DoReverseURL(name, args)
    \/ Return

Spec == Init /\ [][Next]_vars


(***************************************************************************)
(* Inputs of the router                                                    *)
(***************************************************************************)
StaticEntry(name, path, dir, file, base_dir, list) ==
    [name |-> name, path |-> path, dir |-> dir, file |-> file,
     base_dir |-> base_dir, list |-> list]

D_d == <<"/", "d">>
F_abs == <<"/", "f">>
F_rel == <<"f">>
P_a == <<"/", "a">>
P_b == <<"/", "b">>
P_bs == <<"/", "b", "/">>
P_rel == <<"b">>
P_i == <<"/", ":", "i">>

S_dir == StaticEntry("sd", Some(P_a), Some(D_d), None, None, TRUE)
S_file == StaticEntry("sf", Some(P_b), None, Some(F_abs), None, FALSE)
S_rel == StaticEntry("sr", Some(P_b), None, Some(F_rel), None, FALSE)
S_relbase == StaticEntry("sr", Some(P_bs), None, Some(F_rel), Some(D_d), FALSE)
S_both == StaticEntry("sb", Some(P_a), Some(D_d), Some(F_abs), None, FALSE)
S_neither == StaticEntry("sn", Some(P_a), None, None, None, FALSE)
S_public == StaticEntry("public_assets", Some(P_bs), Some(D_d), None, None, FALSE)
S_nopath == StaticEntry("sp", None, Some(D_d), None, None, FALSE)
S_param == StaticEntry("sp", Some(P_i), Some(D_d), None, None, FALSE)
S_relpath == StaticEntry("sp", Some(P_rel), Some(D_d), None, None, FALSE)

StaticEntryInputs ==
    {S_dir, S_file, S_rel, S_relbase, S_both, S_neither, S_public, S_nopath,
     S_param, S_relpath}

\* sections of one or two entries with different keys
StaticSectionInputs ==
    {<<e>> : e \in StaticEntryInputs}
    \cup {p \in {<<e, f>> : e \in StaticEntryInputs, f \in StaticEntryInputs} :
             p[1].name # p[2].name}

RouteEntry(name, path, method, controller, action, auth, children) ==
    [name |-> name, path |-> path, method |-> method,
     controller |-> controller, action |-> action, auth |-> auth,
     routes |-> children]

E_get == RouteEntry("r1", Some(P_a), None, Some("c"), None, None, None)
E_multi ==
    RouteEntry("r2", Some(P_b), Some(<<"get", ",", " ", "post", " ">>),
               Some("c"), Some("x"), Some("form"), None)
E_multiNoAction ==
    RouteEntry("r3", Some(P_b), Some(<<"GET", ",", "POST">>), Some("c"), None,
               None, None)
E_noController == RouteEntry("r3", Some(P_b), None, None, Some("x"), None, None)
E_child == RouteEntry("r4", Some(P_i), Some(<<"post">>), None, None, None, None)
E_group == RouteEntry("g", Some(P_a), None, Some("c"), None, None, Some(<<E_child>>))
E_multiGroup ==
    RouteEntry("g", Some(P_b), Some(<<"GET", ",", "POST">>), Some("c"), None,
               None, Some(<<E_child>>))
E_parent ==
    RouteEntry("g", Some(P_b), Some(<<"get", ",", "options">>), Some("c"),
               Some("x"), None, Some(<<E_child>>))
\* an entry with its own controller and auth, and grouping entries that
\* declare neither controller nor action
E_own == RouteEntry("r5", Some(P_b), None, Some("k"), None, Some("basic"), None)
E_bareGroup == RouteEntry("g", Some(P_a), None, None, None, None, Some(<<E_child>>))
\* nested entries whose paths carry validation rules
P_in == <<"/", ":", "i", "[", "n", "]">>
P_un == <<"/", ":", "u", "[", "n", "]">>
E_leaf == RouteEntry("r7", Some(P_b), None, None, None, None, None)
E_ruleLeaf == RouteEntry("r8", Some(P_un), None, Some("k"), None, None, None)
E_ruleParent ==
    RouteEntry("p", Some(P_in), None, Some("c"), Some("x"), None,
               Some(<<E_leaf, E_ruleLeaf>>))
E_deep ==
    RouteEntry("v", Some(P_a), None, None, None, Some("form"),
               Some(<<E_ruleParent>>))
E_dup == RouteEntry("r6", Some(P_a), None, Some("c"), Some("x"), None, None)
E_ownGroup ==
    RouteEntry("g", Some(P_a), None, None, None, Some("form"),
               Some(<<E_own, E_dup>>))
E_nopath == RouteEntry("r6", None, None, Some("c"), None, None, None)

RouteEntryInputs ==
    {E_get, E_multi, E_multiNoAction, E_noController, E_group, E_multiGroup,
     E_parent, E_dup, E_nopath, E_bareGroup, E_ownGroup, E_ruleParent, E_deep}

RoutesSectionInputs ==
    {<<e>> : e \in RouteEntryInputs}
    \cup {p \in {<<e, f>> : e \in RouteEntryInputs, f \in RouteEntryInputs} :
             p[1].name # p[2].name}

TopLevel == [ParentName |-> "", PrefixPath |-> <<>>, Controller |-> "", Auth |-> ""]

H_ec == <<"e", ".", "c">>
H_Ec == <<"E", ".", "c">>
H_wild == <<"*", ".", "e", ".", "c">>
H_aec == <<"a", ".", "e", ".", "c">>
H_bc == <<"b", ".", "c">>
Port80 == <<"8", "0">>
Port443 == <<"4", "4", "3">>

DomainEntry(k, host, port, subdomain, static, rts) ==
    [key |-> k, host |-> host, port |-> port, subdomain |-> subdomain,
     cors |-> FALSE, default_auth |-> "", static |-> static, routes |-> rts]

D_root == DomainEntry("root", Some(H_ec), Some(Port80), FALSE, None, Some(<<E_get>>))
D_upper == DomainEntry("upper", Some(H_Ec), None, FALSE, None, Some(<<E_multi>>))
D_wild == DomainEntry("wild", Some(H_wild), Some(Port80), TRUE, Some(<<S_dir>>), None)
D_sub == DomainEntry("sub", Some(H_aec), Some(Port80), TRUE, None, Some(<<E_multi>>))
D_other ==
    DomainEntry("other", Some(H_bc), Some(Port443), FALSE, Some(<<S_file>>),
                Some(<<E_group>>))
D_nohost == DomainEntry("nohost", None, None, FALSE, None, Some(<<E_get>>))
D_dup == DomainEntry("dup", Some(H_bc), Some(Port80), FALSE, None, Some(<<E_get, E_dup>>))
D_badstatic == DomainEntry("bad", Some(H_bc), Some(Port80), FALSE, Some(<<S_both>>), None)

\* a domain with default_auth and nested routes
D_auth ==
    [DomainEntry("auth", Some(H_ec), None, FALSE, None, Some(<<E_deep, E_get>>))
        EXCEPT !.default_auth = "basic"]

DomainEntryInputs ==
    {D_root, D_upper, D_wild, D_sub, D_other, D_nohost, D_dup, D_badstatic,
     D_auth}

\* the configuration: server.port of aah.conf and the domains of
\* routes.conf, none, one or two of them
ConfigInputs ==
    {[serverPort |-> sp, domains |-> ds] :
        sp \in {None, Some(Port443)},
        ds \in {<<>>} \cup {<<d>> : d \in DomainEntryInputs}
              \cup {p \in {<<d, e>> : d \in DomainEntryInputs,
                                      e \in DomainEntryInputs} :
                       p[1].key # p[2].key}}

\* Host values of requests
HostInputs ==
    { H_ec, <<"E", ".", "C">>, H_aec, <<"b", ".", "e", ".", "c">>,
      <<"a", ".", "b", ".", "e", ".", "c">>, <<".", "e", ".", "c">>,
      H_ec \o <<":">> \o Port80, H_aec \o <<":">> \o Port80,
      H_ec \o <<":", "8", "0", "8", "0">>, H_bc, H_bc \o <<":">> \o Port443,
      <<"c">> }

\* requests to a domain of the router
DomainRequests ==
    {Request(m, <<"", "">>, p) :
        m \in {MethodGet, MethodPost}, p \in {P_a, P_b, <<"/", "a", "/", "b">>}}
DomainNames == {"r1", "r2", "r4", "sd"}
DomainArgMaps == {{}, {[Key |-> <<"i">>, Value |-> <<"b">>]}}
DomainArgLists == {<<>>, <<<<"b">>>>}

(***************************************************************************)
(* The router: loading and the operations at request time                  *)
(***************************************************************************)
RouterInit ==
    /\ trees = NoTrees
    /\ routes = NoRoutes
    /\ CORSEnabled = FALSE
    /\ last = Idle
    /\ Domains = NoDomains

DoLoad(cfg) ==
    /\ last = Idle
    /\ LET r == processRoutesConfig(Domains, cfg)
       IN /\ Domains' = r.Domains
          /\ last' = [op |-> "Load", cfg |-> cfg, err |-> r.err]
    /\ UNCHANGED <<trees, routes, CORSEnabled>>

\* FindDomain that remembers under the host the domain it found
DoFindDomain_Remembers(host) ==
    /\ last = Idle
    /\ last' = [op |-> "FindDomain", host |-> host,
                res |-> FindDomain(Domains, host)]
    /\ Domains' = IF FindDomain(Domains, host) = NilDomain THEN Domains
                  ELSE [k \in DOMAIN Domains \cup {ToLower(host)} |->
                           IF k = ToLower(host) THEN FindDomain(Domains, host)
                           ELSE Domains[k]]
    /\ UNCHANGED <<trees, routes, CORSEnabled>>

DoFindDomain(host) ==
    /\ last = Idle
    /\ last' = [op |-> "FindDomain", host |-> host,
                res |-> FindDomain(Domains, host)]
    /\ UNCHANGED <<trees, routes, CORSEnabled, Domains>>

\* RootDomain, called once or again right after a call of it
DoRootDomain ==
    /\ last = Idle \/ last.op = "RootDomain"
    /\ \E d \in RootDomain(Domains) : last' = [op |-> "RootDomain", res |-> d]
    /\ UNCHANGED <<trees, routes, CORSEnabled, Domains>>

DoParseStaticSection(cfg) ==
    /\ last = Idle
    /\ last' = [op |-> "parseStaticSection", cfg |-> cfg,
                res |-> parseStaticSection(cfg)]
    /\ UNCHANGED <<trees, routes, CORSEnabled, Domains>>

DoParseRoutesSection(cfg) ==
    /\ last = Idle
    /\ last' = [op |-> "parseRoutesSection", cfg |-> cfg,
                res |-> parseRoutesSection(cfg, TopLevel)]
    /\ UNCHANGED <<trees, routes, CORSEnabled, Domains>>

\* the operations of the domain that FindDomain returns for a host
DoDomainLookup(host, req) ==
    /\ last = Idle
    /\ FindDomain(Domains, host) # NilDomain
    /\ LET d == FindDomain(Domains, host)
       IN last' = [op |-> "Domain.Lookup", host |-> host, req |-> req,
                   res |-> Lookup(d.trees, d.routes, d.CORSEnabled, req)]
    /\ UNCHANGED <<trees, routes, CORSEnabled, Domains>>

DoDomainLookupByName(host, name) ==
    /\ last = Idle
    /\ FindDomain(Domains, host) # NilDomain
    /\ LET d == FindDomain(Domains, host)
       IN last' = [op |-> "Domain.LookupByName", host |-> host, name |-> name,
                   res |-> LookupByName(d.routes, name)]
    /\ UNCHANGED <<trees, routes, CORSEnabled, Domains>>

DoDomainAllowed(host, requestMethod, path) ==
    /\ last = Idle
    /\ FindDomain(Domains, host) # NilDomain
    /\ LET d == FindDomain(Domains, host)
       IN \E allowed \in Allowed(d.trees, requestMethod, path) :
             last' = [op |-> "Domain.Allowed", host |-> host,
                      requestMethod |-> requestMethod, path |-> path,
                      res |-> allowed]
    /\ UNCHANGED <<trees, routes, CORSEnabled, Domains>>

DoDomainReverseURL(host, name, args) ==
    /\ last = Idle
    /\ FindDomain(Domains, host) # NilDomain
    /\ LET d == FindDomain(Domains, host)
       IN last' = [op |-> "Domain.ReverseURL", host |-> host, name |-> name,
                   args |-> args, res |-> ReverseURL(d.routes, name, args)]
    /\ UNCHANGED <<trees, routes, CORSEnabled, Domains>>

DoDomainReverseURLm(host, name, args) ==
    /\ last = Idle
    /\ FindDomain(Domains, host) # NilDomain
    /\ LET d == FindDomain(Domains, host)
       IN last' = [op |-> "Domain.ReverseURLm", host |-> host, name |-> name,
                   args |-> args, res |-> ReverseURLm(d.routes, name, args)]
    /\ UNCHANGED <<trees, routes, CORSEnabled, Domains>>

RouterNext ==
    \/ \E cfg \in ConfigInputs : DoLoad(cfg)
    \/ \E host \in HostInputs : DoFindDomain(host)
    \/ DoRootDomain
    \/ \E cfg \in StaticSectionInputs : DoParseStaticSection(cfg)
    \/ \E cfg \in RoutesSectionInputs : DoParseRoutesSection(cfg)
    \/ \E host \in {H_ec, H_aec}, req \in DomainRequests : DoDomainLookup(host, req)
    \/ \E host \in {H_ec, H_aec}, name \in DomainNames :
          DoDomainLookupByName(host, name)
    \/ \E host \in {H_ec, H_aec}, m \in {MethodGet, MethodPost}, p \in AllowedPaths :
          DoDomainAllowed(host, m, p)
    \/ \E host \in {H_ec, H_aec}, name \in DomainNames, args \in DomainArgLists :
          DoDomainReverseURL(host, name, args)
    \/ \E host \in {H_ec, H_aec}, name \in DomainNames, args \in DomainArgMaps :
          DoDomainReverseURLm(host, name, args)
    \/ Return

RouterSpec == RouterInit /\ [][RouterNext]_vars


(***************************************************************************)
(* Notions the properties are stated with                                  *)
(***************************************************************************)
\* pattern pat matches the concrete path: literal bytes are equal, ':name'
\* stands for a non-empty run of bytes without '/', and '/*name' for the
\* rest of the path from a '/' on
RECURSIVE Matches(_, _)
Matches(pat, path) ==
    IF pat = <<>> THEN path = <<>>
    ELSE IF Head(pat) = paramByte
    THEN LET pe == IndexFrom(pat, slashByte, 1)
             ve == IndexFrom(path, slashByte, 1)
         IN ve > 1 /\ Matches(Drop(pat, pe - 1), Drop(path, ve - 1))
    ELSE IF Len(pat) >= 2 /\ pat[1] = slashByte /\ pat[2] = wildByte
    THEN path # <<>> /\ Head(path) = slashByte
    ELSE path # <<>> /\ Head(pat) = Head(path) /\ Matches(Tail(pat), Tail(path))

\* kinds of pattern: static (no parameter), catch-all, parameter
IsStaticPattern(p) == countParams(p) = 0
IsCatchAllPattern(p) == \E k \in 1..Len(p) : p[k] = wildByte
IsParamPattern(p) == ~IsStaticPattern(p) /\ ~IsCatchAllPattern(p)

\* the names of the parameters of a pattern
ParamNames(p) ==
    {ParamNameAt(p, k) : k \in {j \in 1..Len(p) : p[j] \in {paramByte, wildByte}}}

\* the path a client requests for a URL: the part before '?', unescaped
RECURSIVE PathUnescape(_)
PathUnescape(s) ==
    IF s = <<>> THEN <<>>
    ELSE IF Len(s) >= 3 /\ SubSeq(s, 1, 3) = <<"%", "2", "0">>
    THEN <<" ">> \o PathUnescape(Drop(s, 3))
    ELSE <<Head(s)>> \o PathUnescape(Tail(s))

URLPath(url) == PathUnescape(SubSeq(url, 1, IndexFrom(url, "?", 1) - 1))

\* a PathParams list as a set of [Key, Value]
ParamSet(ps) == {ps[i] : i \in DOMAIN ps}

\* a request without override or CORS headers
PlainRequest(method, path) == Request(method, <<"", "">>, path)

(***************************************************************************)
(* C1: whatever the domain and the request, Lookup returns a route and no  *)
(* trailing-slash signal, or no route and no parameters (with or without   *)
(* the signal): never a route together with rts, never parameters without  *)
(* a route.                                                                *)
(***************************************************************************)
C1_LookupShapes ==
    last.op = "Lookup" =>
        \/ last.res.route # NilRoute /\ last.res.rts = FALSE
        \/ last.res.route = NilRoute /\ last.res.params = NilParams

C1_Witness ==
    /\ last.op = "Lookup"
    /\ last.res.route # NilRoute
    /\ last.res.params # NilParams
    /\ last.res.params.list # <<>>


(***************************************************************************)
(* C2: round trip.  The state is the one in which ReverseURLm(N, M) has    *)
(* returned; R is the route the by-name index holds for N.                 *)
(***************************************************************************)
\* M has a value for every parameter of the pattern
CoversParams(pat, args) == \A k \in ParamNames(pat) : HasArg(args, k)

\* the result of looking up the returned URL with the route's method
FollowURL(R, url) ==
    Lookup(trees, routes, CORSEnabled, PlainRequest(R.Method, URLPath(url)))

RoundTripCase ==
    /\ last.op = "ReverseURLm"
    /\ last.name \in DOMAIN routes
    /\ ~routes[last.name].IsStatic
    /\ CoversParams(routes[last.name].Path, last.args)

GoodValue(v, wild) ==
    /\ v # <<>>
    /\ Clean(<<slashByte>> \o v) = <<slashByte>> \o v
    /\ (wild \/ \A i \in DOMAIN v : v[i] # slashByte)

WildNames(pat) ==
    {ParamNameAt(pat, k) : k \in {j \in 1..Len(pat) : pat[j] = wildByte}}

RoundTripAmendedCase ==
    /\ RoundTripCase
    /\ last.res # <<>>
    /\ LET R == routes[last.name]
       IN /\ Clean(R.Path) = R.Path
          /\ \A a \in last.args :
                a.Key \in ParamNames(R.Path) =>
                    GoodValue(a.Value, a.Key \in WildNames(R.Path))
          /\ \A e \in trees[R.Method] :
                Matches(e.path, URLPath(last.res)) => e.path = R.Path

AddRouteStep == last = Idle /\ last'.op = "AddRoute"

C3_NamesUnique ==
    [][(AddRouteStep /\ last'.route.Name \in DOMAIN routes) =>
          /\ last'.err # ErrNone
          /\ LookupByName(routes', last'.route.Name)
               = LookupByName(routes, last'.route.Name)]_vars


(***************************************************************************)
(* C4: every route of the by-name index has its pattern registered as a    *)
(* terminal in the tree of its method, and a lookup of a concrete path     *)
(* that matches the pattern finds a terminal in that tree.                 *)
(***************************************************************************)
C4_RoutesInTrees ==
    \A n \in DOMAIN routes :
        LET R == routes[n]
        IN /\ R.Method \in DOMAIN trees
           /\ Terminal(trees[R.Method], R.Path)
           /\ \A p \in PathInputs :
                 Matches(R.Path, p) => TreeFind(trees[R.Method], p).value # Nil

C4_Witness ==
    /\ last.op = "AddRoute"
    /\ last.err = ErrNone
    /\ Cardinality(DOMAIN routes) = 2
    /\ \A n \in DOMAIN routes : \E p \in PathInputs : Matches(routes[n].Path, p)
    /\ \E n \in DOMAIN routes : ~IsStaticPattern(routes[n].Path)

(***************************************************************************)
(* C5: an AddRoute whose method and pattern are already a terminal returns *)
(* the node-exists error, whatever its name, and Lookup goes on returning  *)
(* what it returned for the paths of that pattern.                         *)
(***************************************************************************)
C5_DuplicatePattern ==
    [][(/\ AddRouteStep
        /\ last'.route.Method \in DOMAIN trees
        /\ Terminal(trees[last'.route.Method], last'.route.Path)) =>
          /\ last'.err = errNodeExists
          /\ \A req \in Requests :
                Matches(last'.route.Path, req.Path) =>
                    Lookup(trees', routes', CORSEnabled', req)
                      = Lookup(trees, routes, CORSEnabled, req)]_vars

C5_Witness ==
    /\ last.op = "AddRoute"
    /\ last.err = errNodeExists
    /\ ValueAt(trees[last.route.Method], last.route.Path) # last.route.Name
    /\ \E req \in Requests :
          /\ Matches(last.route.Path, req.Path)
          /\ Lookup(trees, routes, CORSEnabled, req).route # NilRoute

(***************************************************************************)
(* C6: an AddRoute whose pattern reaches an existing parameter edge with   *)
(* another parameter name returns the parameter-edge error and registers   *)
(* nothing; with the same name at that edge the insertion succeeds (unless *)
(* the pattern is already a terminal).                                     *)
(***************************************************************************)
\* pattern p and a pattern of T agree up to a ':' and name the parameter
\* that starts there differently / the same
ParamEdgeConflict(T, p) ==
    \E k \in 1..Len(p) : \E e \in T :
        /\ p[k] = paramByte
        /\ IsPrefix(SubSeq(p, 1, k), e.path)
        /\ ParamNameAt(e.path, k) # ParamNameAt(p, k)

SharesParamEdge(T, p) ==
    \E k \in 1..Len(p) : \E e \in T :
        /\ p[k] = paramByte
        /\ IsPrefix(SubSeq(p, 1, k), e.path)
        /\ ParamNameAt(e.path, k) = ParamNameAt(p, k)

C6_ParamEdge ==
    [][(AddRouteStep /\ last'.route.Method \in DOMAIN trees) =>
          LET r == last'.route
              T == trees[r.Method]
          IN /\ ParamEdgeConflict(T, r.Path) =>
                   /\ last'.err = errParamEdge
                   /\ trees' = trees
                   /\ routes' = routes
             /\ (SharesParamEdge(T, r.Path) /\ ~ParamEdgeConflict(T, r.Path)) =>
                   /\ last'.err = (IF Terminal(T, r.Path) THEN errNodeExists
                                   ELSE ErrNone)
                   /\ last'.err = ErrNone =>
                         /\ Terminal(trees'[r.Method], r.Path)
                         /\ LookupByName(routes', r.Name) = r]_vars

C6_Witness ==
    /\ last.op = "AddRoute"
    /\ last.err = errParamEdge
    /\ last.route.Name \notin DOMAIN routes
    /\ ParamEdgeConflict(trees[last.route.Method], last.route.Path)


\* the last call was a Lookup of a request without override or CORS headers
\* whose method has a tree
PlainLookup ==
    /\ last.op = "Lookup"
    /\ last.req = PlainRequest(last.req.Method, last.req.Path)
    /\ last.req.Method \in DOMAIN trees

\* the patterns of a tree that match a path
MatchingPatterns(T, path) == {e.path : e \in {x \in T : Matches(x.path, path)}}

(***************************************************************************)
(* C7: when a static pattern and a parameter or catch-all pattern of the   *)
(* request's method both match the path, Lookup returns the route of the   *)
(* static pattern; when a parameter and a catch-all pattern both match (and*)
(* no static one), it returns the route of the parameter pattern.          *)
(***************************************************************************)
C7_Priority ==
    PlainLookup =>
        LET M == MatchingPatterns(trees[last.req.Method], last.req.Path)
            S == {q \in M : IsStaticPattern(q)}
            P == {q \in M : IsParamPattern(q)}
            W == {q \in M : IsCatchAllPattern(q)}
        IN /\ (S # {} /\ P \cup W # {}) =>
                 /\ last.res.route # NilRoute
                 /\ last.res.route.Method = last.req.Method
                 /\ last.res.route.Path \in S
           /\ (S = {} /\ P # {} /\ W # {}) =>
                 /\ last.res.route # NilRoute
                 /\ last.res.route.Method = last.req.Method
                 /\ last.res.route.Path \in P

(***************************************************************************)
(* C8: when no pattern of the request's method matches the path but one    *)
(* matches the path with one trailing '/' added or removed, Lookup returns *)
(* (nil, nil, true); when neither form matches it returns (nil, nil,       *)
(* false).                                                                 *)
(***************************************************************************)
\* the path with one trailing '/' removed, or added when it has none
ToggleSlash(path) ==
    IF path # <<>> /\ path[Len(path)] = slashByte
    THEN SubSeq(path, 1, Len(path) - 1)
    ELSE path \o <<slashByte>>

C8_TrailingSlash ==
    (PlainLookup /\ MatchingPatterns(trees[last.req.Method], last.req.Path) = {}) =>
        last.res =
            [route |-> NilRoute, params |-> NilParams,
             rts |-> MatchingPatterns(trees[last.req.Method],
                                      ToggleSlash(last.req.Path)) # {}]

C8_Witness ==
    /\ PlainLookup
    /\ MatchingPatterns(trees[last.req.Method], last.req.Path) = {}
    /\ MatchingPatterns(trees[last.req.Method], ToggleSlash(last.req.Path)) # {}
    /\ last.res.rts
    /\ last.req.Path[Len(last.req.Path)] = slashByte
    /\ \E e \in trees[last.req.Method] : ~IsStaticPattern(e.path)

(***************************************************************************)
(* C9: Allowed(requestMethod, "*") is the comma separated list of exactly  *)
(* the methods that have a tree, OPTIONS left out, each once; the request  *)
(* method is in the list when it has a tree.                               *)
(***************************************************************************)
\* the items of a comma separated list, and whether the list is well formed
ListItems(l) == {l[i] : i \in {j \in DOMAIN l : j % 2 = 1}}

WellFormedList(l) ==
    /\ l # <<>> => Len(l) % 2 = 1
    /\ \A i \in DOMAIN l : i % 2 = 0 => l[i] = ", "
    /\ \A i, j \in DOMAIN l : (i % 2 = 1 /\ j % 2 = 1 /\ i # j) => l[i] # l[j]

C9_AllowedServerWide ==
    (last.op = "Allowed" /\ last.path = <<wildByte>>) =>
        /\ WellFormedList(last.res)
        /\ ListItems(last.res) = DOMAIN trees \ {MethodOptions}

C9_Witness ==
    /\ last.op = "Allowed"
    /\ last.path = <<wildByte>>
    /\ last.requestMethod = MethodPost
    /\ DOMAIN trees = {MethodGet, MethodPost}
    /\ ListItems(last.res) = {MethodGet, MethodPost}

(***************************************************************************)
(* C10: for a path other than "*", Allowed(requestMethod, p) lists method  *)
(* m if and only if m is neither the request method nor OPTIONS and the    *)
(* tree of m has a terminal matching p.                                    *)
(***************************************************************************)
C10_AllowedForPath ==
    (last.op = "Allowed" /\ last.path # <<wildByte>>) =>
        /\ WellFormedList(last.res)
        /\ \A m \in Methods \cup DOMAIN trees \cup ListItems(last.res) :
              m \in ListItems(last.res) <=>
                 /\ m # last.requestMethod
                 /\ m # MethodOptions
                 /\ m \in DOMAIN trees
                 /\ MatchingPatterns(trees[m], last.path) # {}

C10_Witness ==
    /\ last.op = "Allowed"
    /\ last.path # <<wildByte>>
    /\ last.requestMethod = MethodGet
    /\ DOMAIN trees = {MethodGet, MethodPost}
    /\ MatchingPatterns(trees[MethodGet], last.path) # {}
    /\ MatchingPatterns(trees[MethodPost], last.path) # {}
    /\ last.res = <<MethodPost>>


(***************************************************************************)
(* C11: ReverseURLm returns the empty string for an unknown name, for      *)
(* fewer arguments than parameters and for a parameter without argument;   *)
(* otherwise the pattern with every parameter segment replaced by its      *)
(* value, followed by '?' and a query of exactly the arguments that are    *)
(* not parameters (the stored path when there is neither parameter nor     *)
(* argument).                                                              *)
(***************************************************************************)
\* the segments of a pattern joined again with '/'
RECURSIVE JoinSlash(_)
JoinSlash(segs) ==
    IF segs = <<>> THEN <<>>
    ELSE IF Len(segs) = 1 THEN Head(segs)
    ELSE Head(segs) \o <<slashByte>> \o JoinSlash(Tail(segs))

\* the pattern with every parameter segment replaced by its argument
Substituted(pat, args) ==
    LET segs == Split(pat, slashByte)
    IN JoinSlash([i \in DOMAIN segs |->
                    IF segs[i] # <<>> /\ segs[i][1] \in {paramByte, wildByte}
                    THEN ArgValue(args, Tail(segs[i]))
                    ELSE segs[i]])

\* the part of a URL before '?' as written, and the keys of its query
RawPath(url) == SubSeq(url, 1, IndexFrom(url, "?", 1) - 1)

QueryPairs(url) ==
    LET q == IndexFrom(url, "?", 1)
    IN IF q > Len(url) THEN <<>> ELSE Split(Drop(url, q), "&")

QueryKeys(url) ==
    LET qp == QueryPairs(url)
    IN {SubSeq(qp[i], 1, IndexFrom(qp[i], "=", 1) - 1) : i \in DOMAIN qp}

\* the arguments that are not parameters of the pattern
RestArgs(pat, args) == {a \in args : a.Key \notin ParamNames(pat)}

\* the call of ReverseURLm fails by the rules of the claim
ReverseFails(rs, name, args) ==
    \/ name \notin DOMAIN rs
    \/ /\ name \in DOMAIN rs
       /\ \/ Cardinality(args) < countParams(rs[name].Path)
          \/ ~CoversParams(rs[name].Path, args)

ReverseURLmCall == last.op = "ReverseURLm"

GoodArgs(pat, args) ==
    \A a \in args : a.Key \in ParamNames(pat) => GoodValue(a.Value, TRUE)

RECURSIVE SubstitutePositional(_, _)
SubstitutePositional(segs, values) ==
    IF segs = <<>> THEN <<>>
    ELSE IF Head(segs) # <<>> /\ Head(segs)[1] \in {paramByte, wildByte}
    THEN <<Head(values)>> \o SubstitutePositional(Tail(segs), Tail(values))
    ELSE <<Head(segs)>> \o SubstitutePositional(Tail(segs), values)

SubstitutedInOrder(pat, values) ==
    JoinSlash(SubstitutePositional(Split(pat, slashByte), values))

HasQueryMark(s) == \E i \in DOMAIN s : s[i] = "?"

ReverseURLCall == last.op = "ReverseURL"

PositionalFails(rs, name, args) ==
    \/ name \notin DOMAIN rs
    \/ name \in DOMAIN rs /\ Len(args) # countParams(rs[name].Path)

ClaimedMethod(req) ==
    IF req.Method = MethodPost /\ req.Override # "" THEN req.Override
    ELSE req.Method

\* the same request sent with that method and without override header
WithoutOverride(req) ==
    [req EXCEPT !.Method = ClaimedMethod(req), !.Override = ""]

C20_MethodOverride ==
    last.op = "Lookup" =>
        /\ last.res = Lookup(trees, routes, CORSEnabled, WithoutOverride(last.req))
        /\ (last.req.ACRM = "" /\ ClaimedMethod(last.req) \notin DOMAIN trees) =>
              last.res = [route |-> NilRoute, params |-> NilParams, rts |-> FALSE]
        /\ (last.req.ACRM = "" /\ ClaimedMethod(last.req) \in DOMAIN trees) =>
              (last.res.route # NilRoute) =
                 (MatchingPatterns(trees[ClaimedMethod(last.req)],
                                   last.req.Path) # {})

\* an override that decides the result, and one that is ignored
C20_Witness ==
    /\ last.op = "Lookup"
    /\ last.req.Method = MethodPost
    /\ last.req.Override = MethodGet
    /\ last.res.route # NilRoute
    /\ MethodPost \in DOMAIN trees
    /\ Lookup(trees, routes, CORSEnabled,
              [last.req EXCEPT !.Override = ""]).route = NilRoute

C20_WitnessIgnored ==
    /\ last.op = "Lookup"
    /\ last.req.Method = MethodGet
    /\ last.req.Override = MethodPost
    /\ last.res.route # NilRoute
    /\ MethodPost \in DOMAIN trees
    /\ MatchingPatterns(trees[MethodPost], last.req.Path) = {}


(***************************************************************************)
(* C13: FindDomain returns the domain whose key is the lowercased host if  *)
(* there is one; else, when the host has its first '.' after at least one  *)
(* byte, the domain keyed "*." + the rest after that '.'; else nil.  So a  *)
(* domain keyed "*.rest" is found for every host "X.rest" with X one       *)
(* non-empty label (unless that host has a domain of its own), and not for *)
(* "rest" nor for "X.Y.rest".                                              *)
(***************************************************************************)
FindDomainCall == last.op = "FindDomain"

\* h is lbl.rest for a prefix lbl of n bytes
LabelBefore(h, rest, n) == Drop(h, n) = <<".">> \o rest

NoDot(s) == \A i \in DOMAIN s : s[i] # "."

C13_FindDomain ==
    FindDomainCall =>
        LET h == ToLower(last.host)
            dot == IndexFrom(h, ".", 1)
        IN /\ h \in DOMAIN Domains => last.res = Domains[h]
           /\ h \notin DOMAIN Domains =>
                 IF dot > 1 /\ dot <= Len(h)
                    /\ (<<"*", ".">> \o Drop(h, dot)) \in DOMAIN Domains
                 THEN last.res = Domains[<<"*", ".">> \o Drop(h, dot)]
                 ELSE last.res = NilDomain
           /\ \A k \in DOMAIN Domains :
                 IsPrefix(<<"*", ".">>, k) =>
                    LET rest == Drop(k, 2)
                    IN /\ (/\ h \notin DOMAIN Domains
                           /\ \E n \in 1..Len(h) :
                                 /\ LabelBefore(h, rest, n)
                                 /\ NoDot(SubSeq(h, 1, n))) =>
                             last.res = Domains[k]
                       /\ (\/ h = rest
                           \/ LabelBefore(h, rest, 0)
                           \/ \E n \in 1..Len(h) :
                                 /\ LabelBefore(h, rest, n)
                                 /\ ~NoDot(SubSeq(h, 1, n))) =>
                             last.res # Domains[k]

\* a host found through the wildcard key
C13_Witness ==
    /\ FindDomainCall
    /\ ToLower(last.host) \notin DOMAIN Domains
    /\ last.res # NilDomain
    /\ last.res.Host = H_wild


(***************************************************************************)
(* C14: a domain loaded with port 80 or 443 has its host as key, and       *)
(* FindDomain finds it for a Host value with that port written out as well *)
(* as for one without port.                                                *)
(***************************************************************************)
LoadCall == last.op = "Load"

\* the port a domain entry is configured with
ConfiguredPort(cfg, e) ==
    StringDefault(e.port, StringDefault(cfg.serverPort, <<"8", "0", "8", "0">>))

C14_PortNormalization ==
    (LoadCall /\ last.err = NoError) =>
        \A i \in DOMAIN last.cfg.domains :
            LET e == last.cfg.domains[i]
                port == ConfiguredPort(last.cfg, e)
                host == Value(e.host)
            IN port \in {Port80, Port443} =>
                  /\ ToLower(host) \in DOMAIN Domains
                  /\ FindDomain(Domains, host) = Domains[ToLower(host)]
                  /\ FindDomain(Domains, host \o <<":">> \o port)
                       = Domains[ToLower(host)]

(***************************************************************************)
(* C15: when loading fails at a domain entry, the router exposes no        *)
(* routing state: Domains is empty and FindDomain returns nil for every    *)
(* host.                                                                   *)
(***************************************************************************)
C15_LoadAllOrNothing ==
    (LoadCall /\ last.err # NoError /\ last.cfg.domains # <<>>) =>
        /\ Domains = NoDomains
        /\ \A host \in HostInputs : FindDomain(Domains, host) = NilDomain

(***************************************************************************)
(* C16: RootDomain returns a domain that is not flagged as subdomain, nil  *)
(* exactly when every domain is flagged, and the same domain in two calls  *)
(* without a load in between.                                              *)
(***************************************************************************)
RootDomainCall == last.op = "RootDomain"

C16_RootDomain ==
    /\ [](RootDomainCall =>
            /\ (last.res = NilDomain)
                  = (\A k \in DOMAIN Domains : Domains[k].IsSubDomain)
            /\ last.res # NilDomain =>
                  /\ ~last.res.IsSubDomain
                  /\ \E k \in DOMAIN Domains : Domains[k] = last.res)
    /\ [][(RootDomainCall /\ last'.op = "RootDomain") =>
             last'.res = last.res]_vars

(***************************************************************************)
(* C17: FindDomain, Lookup, LookupByName, Allowed, ReverseURL and          *)
(* ReverseURLm leave the domain map, the trees of every domain and the     *)
(* by-name index of every domain as they were.                             *)
(***************************************************************************)
RequestTimeOps ==
    {"FindDomain", "Domain.Lookup", "Domain.LookupByName", "Domain.Allowed",
     "Domain.ReverseURL", "Domain.ReverseURLm"}

EndsWith(str, suffix) ==
    /\ Len(str) >= Len(suffix)
    /\ SubSeq(str, Len(str) - Len(suffix) + 1, Len(str)) = suffix

BothOrNeither(e) == Found(e.dir) = Found(e.file)

ListedMethods(v) ==
    {ToUpperWord(v[i]) : i \in {j \in DOMAIN v : v[j] \notin {",", " "}}}

SeveralMethods(e) == Found(e.method) /\ Cardinality(ListedMethods(Value(e.method))) > 1

RoutesNamed(rts, name) == {i \in DOMAIN rts : rts[i].Name = name}

C19_SeveralMethods ==
    last.op = "parseRoutesSection" =>
        LET e == last.cfg[1]
            named == RoutesNamed(last.res.routes, e.name)
        IN (SeveralMethods(e) /\ Found(e.path) /\ Found(e.controller)) =>
              IF Found(e.action)
              THEN /\ Cardinality(named) = Cardinality(ListedMethods(Value(e.method)))
                   /\ {last.res.routes[i].Method : i \in named}
                         = ListedMethods(Value(e.method))
                   /\ \A i \in named :
                         /\ last.res.routes[i].Path = Value(e.path)
                         /\ last.res.routes[i].Controller = Value(e.controller)
                         /\ last.res.routes[i].Action = Value(e.action)
                         /\ last.res.routes[i].Auth
                              = StringDefault(e.auth, "")
              ELSE /\ named = {}
                   /\ last.res.err =
                        <<"'", e.name,
                          ".action' key is missing or it seems to be multiple HTTP methods">>

(***************************************************************************)
(* C21: Lookup uses the tree of the effective request method when the      *)
(* domain has one; when it has none, the method is OPTIONS and CORS is     *)
(* enabled, it uses the tree named by Access-Control-Request-Method; in    *)
(* every other case without a tree for the method it returns               *)
(* (nil, nil, false).                                                      *)
(***************************************************************************)
\* the method whose tree the claim says is used, Nil when there is none
ClaimedTree(req) ==
    IF ClaimedMethod(req) \in DOMAIN trees THEN ClaimedMethod(req)
    ELSE IF /\ ClaimedMethod(req) = MethodOptions
            /\ CORSEnabled
            /\ req.ACRM \in DOMAIN trees
    THEN req.ACRM
    ELSE Nil

C21_TreeSelection ==
    last.op = "Lookup" =>
        IF ClaimedTree(last.req) = Nil
        THEN last.res = [route |-> NilRoute, params |-> NilParams, rts |-> FALSE]
        ELSE /\ (last.res.route # NilRoute) =
                   (MatchingPatterns(trees[ClaimedTree(last.req)],
                                     last.req.Path) # {})
             /\ last.res.route = NilRoute =>
                   last.res.rts =
                      (MatchingPatterns(trees[ClaimedTree(last.req)],
                                        ToggleSlash(last.req.Path)) # {})

\* a preflight request answered from the tree of the announced method
C21_Witness ==
    /\ last.op = "Lookup"
    /\ last.req.Method = MethodOptions
    /\ last.req.ACRM = MethodGet
    /\ MethodOptions \notin DOMAIN trees
    /\ CORSEnabled
    /\ last.res.route # NilRoute

(***************************************************************************)
(* C22: a routes entry with child routes that does not declare both action *)
(* and controller registers no route of its own name and raises no error   *)
(* for its missing controller or action, while each of its child entries   *)
(* is processed and, when the section is accepted, registered.             *)
(***************************************************************************)
IsGroupingNode(e) ==
    Found(e.routes) /\ ~(Found(e.action) /\ Found(e.controller))

\* the errors of an entry for its own controller or action
OwnTargetErrors(e) ==
    { <<"'", e.name, ".controller' key is missing">>,
      <<"'", e.name, ".action' key is missing, it seems to be multiple HTTP methods">>,
      <<"'", e.name, ".action' key is missing or it seems to be multiple HTTP methods">> }

\* the domain r.Domains holds for the i-th domain entry of the loaded
\* configuration, when no later entry took its key
KeyOfEntry(cfg, i) ==
    key([Host |-> Value(cfg.domains[i].host),
         Port |-> DomainPort(cfg, cfg.domains[i])])

KeepsKey(cfg, i) ==
    \A j \in DOMAIN cfg.domains : j > i => KeyOfEntry(cfg, j) # KeyOfEntry(cfg, i)

C22_GroupingNodes ==
    /\ last.op = "parseRoutesSection" =>
          \A i \in DOMAIN last.cfg :
             IsGroupingNode(last.cfg[i]) =>
                /\ last.res.err \notin OwnTargetErrors(last.cfg[i])
                /\ last.res.err = NoError =>
                      /\ RoutesNamed(last.res.routes, last.cfg[i].name) = {}
                      /\ \A c \in DOMAIN Value(last.cfg[i].routes) :
                            \E k \in DOMAIN last.res.routes :
                               /\ last.res.routes[k].Name
                                    = Value(last.cfg[i].routes)[c].name
                               /\ last.res.routes[k].ParentName = last.cfg[i].name
    /\ (LoadCall /\ last.err = NoError) =>
          \A i \in DOMAIN last.cfg.domains :
             (Found(last.cfg.domains[i].routes) /\ KeepsKey(last.cfg, i)) =>
                \A j \in DOMAIN Value(last.cfg.domains[i].routes) :
                   LET e == Value(last.cfg.domains[i].routes)[j]
                       d == Domains[KeyOfEntry(last.cfg, i)]
                   IN IsGroupingNode(e) =>
                         /\ LookupByName(d.routes, e.name) = NilRoute
                         /\ \A c \in DOMAIN Value(e.routes) :
                               /\ LookupByName(d.routes, Value(e.routes)[c].name)
                                    # NilRoute
                               /\ LookupByName(d.routes, Value(e.routes)[c].name)
                                    .ParentName = e.name

\* a loaded domain whose section has a grouping node without controller
\* and children with and without a controller of their own
C22_Witness ==
    /\ last.op = "parseRoutesSection"
    /\ last.res.err = NoError
    /\ \E i \in DOMAIN last.cfg :
          /\ IsGroupingNode(last.cfg[i])
          /\ ~Found(last.cfg[i].controller)
          /\ Len(Value(last.cfg[i].routes)) = 2
    /\ Len(last.res.routes) >= 2

(***************************************************************************)
(* C23: every route emitted from a nested entry has as Path the join of    *)
(* its ancestors' paths and its own path with the validation rules         *)
(* stripped, as ParentName the name of the enclosing entry ("" at top      *)
(* level), as controller and auth its own value or else the resolved value *)
(* of the nearest ancestor (auth falling back to default_auth); and, the   *)
(* prefix handed to children being stripped of rules, its validation rules *)
(* have only keys that are parameters of its own path.                     *)
(***************************************************************************)
\* a path without its '[rules]' parts
RECURSIVE StripRules(_)
StripRules(p) ==
    IF p = <<>> THEN <<>>
    ELSE IF Head(p) = "["
    THEN StripRules(Drop(p, IndexFrom(p, "]", 1)))
    ELSE <<Head(p)>> \o StripRules(Tail(p))

\* what the claim expects of the routes of a section: for every entry that
\* registers, at any depth, its name, flattened path, parent, controller,
\* auth and the parameters of its own path
RECURSIVE Flattened(_, _, _, _, _)
Flattened(entries, prefix, parentName, controller, auth) ==
    UNION {
        LET e == entries[i]
            own == StringDefault(e.path, <<>>)
            ctl == StringDefault(e.controller, controller)
            au == StringDefault(e.auth, auth)
        IN (IF IsGroupingNode(e) THEN {}
            ELSE {[Name |-> e.name,
                   Path |-> StripRules(PathJoinAny(prefix, own)),
                   ParentName |-> parentName,
                   Controller |-> ctl,
                   Auth |-> au,
                   OwnParams |-> ParamNames(StripRules(own))]})
           \cup (IF Found(e.routes)
                 THEN Flattened(Value(e.routes), PathJoinAny(prefix, own),
                                e.name, ctl, au)
                 ELSE {})
        : i \in DOMAIN entries }

\* route r is flattened as the expectation x says
FlattenedAs(r, x) ==
    /\ r.Name = x.Name
    /\ r.Path = x.Path
    /\ r.ParentName = x.ParentName
    /\ r.Controller = x.Controller
    /\ r.Auth = x.Auth

OwnRulesOnly(r, x) == DOMAIN r.validationRules \subseteq x.OwnParams

\* the part of the statement on paths, parents, controller and auth
C23_PathsAndInheritance ==
    /\ (last.op = "parseRoutesSection" /\ last.res.err = NoError) =>
          \A k \in DOMAIN last.res.routes :
             \E x \in Flattened(last.cfg, <<>>, "", "", "") :
                FlattenedAs(last.res.routes[k], x)
    /\ (LoadCall /\ last.err = NoError) =>
          \A i \in DOMAIN last.cfg.domains :
             (Found(last.cfg.domains[i].routes) /\ KeepsKey(last.cfg, i)) =>
                \A n \in DOMAIN Domains[KeyOfEntry(last.cfg, i)].routes :
                   LET r == Domains[KeyOfEntry(last.cfg, i)].routes[n]
                   IN ~r.IsStatic =>
                        \E x \in Flattened(Value(last.cfg.domains[i].routes),
                                           <<>>, "", "",
                                           last.cfg.domains[i].default_auth) :
                           FlattenedAs(r, x)

C23_Flattening ==
    /\ C23_PathsAndInheritance
    /\ (last.op = "parseRoutesSection" /\ last.res.err = NoError) =>
          \A k \in DOMAIN last.res.routes :
             \E x \in Flattened(last.cfg, <<>>, "", "", "") :
                /\ FlattenedAs(last.res.routes[k], x)
                /\ OwnRulesOnly(last.res.routes[k], x)

\* a route two levels deep that inherits controller and auth
C23_WitnessNested ==
    /\ LoadCall /\ last.err = NoError
    /\ \E k \in DOMAIN Domains :
          /\ "r7" \in DOMAIN Domains[k].routes
          /\ Domains[k].routes["r7"].ParentName = "p"
          /\ Domains[k].routes["r7"].Auth = "form"
          /\ "r1" \in DOMAIN Domains[k].routes
          /\ Domains[k].routes["r1"].Auth = "basic"

(***************************************************************************)
(* C24: after AddRoute calls that all succeeded (or a successful Load),    *)
(* whenever Lookup returns a route, the route's Method is the method of    *)
(* the tree that matched and its Path is a pattern of that tree that       *)
(* matches the request path, also for routes of one name with several      *)
(* methods and for routes added under a name already in use.               *)
(***************************************************************************)
\* no AddRoute failed on a method that had no tree: every tree has a pattern
OnlySuccessfulAdds == \A m \in DOMAIN trees : trees[m] # EmptyTree

C24_LookupConsistent ==
    /\ (last.op = "Lookup" /\ OnlySuccessfulAdds /\ last.res.route # NilRoute) =>
          /\ last.res.route.Method = ClaimedTree(last.req)
          /\ last.res.route.Path
                \in MatchingPatterns(trees[ClaimedTree(last.req)], last.req.Path)
    /\ (last.op = "Domain.Lookup" /\ last.res.route # NilRoute) =>
          /\ last.res.route.Method = last.req.Method
          /\ last.res.route.Path
                \in MatchingPatterns(
                       FindDomain(Domains, last.host).trees[last.req.Method],
                       last.req.Path)

(***************************************************************************)
(* C25: an AddRoute call that returns an error leaves the domain as it     *)
(* was: the same methods have a tree (Allowed(m, "*") is unchanged), every *)
(* request has the same Lookup result, and the by-name index is the same.  *)
(***************************************************************************)
\* the domain after the step answers as the domain before it
SameAnswers ==
    /\ DOMAIN trees' = DOMAIN trees
    /\ \A m \in Methods :
          Allowed(trees', m, <<wildByte>>) = Allowed(trees, m, <<wildByte>>)
    /\ \A req \in Requests :
          Lookup(trees', routes', CORSEnabled', req)
            = Lookup(trees, routes, CORSEnabled, req)
    /\ routes' = routes

C25_UnchangedOnError ==
    [][(AddRouteStep /\ last'.err # ErrNone) => SameAnswers]_vars

\* the same for the three errors the statement lists
C25_ListedErrors ==
    [][(/\ AddRouteStep
        /\ last'.err \in {"router: method value is empty", errNodeExists,
                          errParamEdge}) => SameAnswers]_vars

====
